---- MODULE Spec2Model ----
(***************************************************************************)
(* A model of src/src/ast.rs of rust-cssparser: the Component Value data   *)
(* model with its derived structural equality, the rendering of            *)
(* SyntaxError, and the two whitespace-skipping iterators                  *)
(* (SkipWhitespaceIterator over a borrowed slice, and                      *)
(* MoveSkipWhitespaceIterator over an owned Vec).                          *)
(*                                                                         *)
(* Three specifications share the variables:                               *)
(*   Spec      the two iterators over one logical input sequence           *)
(*   SpecEq    derived PartialEq on Component Values                       *)
(*   SpecShow  fmt::Show for SyntaxError                                   *)
(***************************************************************************)
EXTENDS Integers, Sequences, FiniteSets, TLC

VARIABLES
    orig,      \* the logical input sequence, as it was before any iterator was made
    slice,     \* the sequence behind the borrowed &[ComponentValue]
    biter,     \* SkipWhitespaceIterator: [made, pos]; pos = elements taken from slice::Iter
    blog,      \* one record per call of SkipWhitespaceIterator::next
    vec,       \* the owned Vec<ComponentValue>, until it is moved
    miter,     \* MoveSkipWhitespaceIterator: [made, rest]; rest = what vec::IntoIter still holds
    mlog,      \* one record per call of MoveSkipWhitespaceIterator::next
    ea, eb, ec,\* three Component Values under comparison
    eqres,     \* the results of == on them, <<>> before the comparison
    err,       \* a SyntaxError value
    rendered   \* its rendering, <<>> before fmt ran, <<text>> after

vars == <<orig, slice, biter, blog, vec, miter, mlog, ea, eb, ec, eqres, err, rendered>>

iterVars == <<orig, slice, biter, blog, vec, miter, mlog>>
eqVars == <<ea, eb, ec, eqres>>
showVars == <<err, rendered>>

(***************************************************************************)
(* Bounds of the model.                                                    *)
(***************************************************************************)
MaxLen == 4        \* longest enumerated input sequence
MaxExtra == 2      \* calls of next allowed after the first None
MaxArgs == 1       \* longest nested sequence among the compared values
MaxLine == 11      \* largest line and column of a SyntaxError

(***************************************************************************)
(* Option<T>: None is the empty sequence, Some(x) the one-element sequence.*)
(***************************************************************************)
None == <<>>
Some(x) == <<x>>
IsSome(o) == Len(o) = 1
Unwrap(o) == o[1]

(***************************************************************************)
(* f64, as far as == can tell values apart: NaN, the sign, the magnitude.  *)
(***************************************************************************)
F64(n) == [nan |-> FALSE, neg |-> FALSE, mag |-> n]
NegF64(n) == [nan |-> FALSE, neg |-> TRUE, mag |-> n]
NaN == [nan |-> TRUE, neg |-> FALSE, mag |-> 0]

\* f64's PartialEq (IEEE 754): NaN equals nothing, -0.0 equals +0.0.
F64Eq(x, y) ==
    /\ ~x.nan
    /\ ~y.nan
    /\ x.mag = y.mag
    /\ (x.neg = y.neg \/ x.mag = 0)

(***************************************************************************)
(* NumericValue and SourceLocation.                                        *)
(***************************************************************************)
NumericValue(r, v, i) == [representation |-> r, value |-> v, int_value |-> i]

SourceLocation(l, c) == [line |-> l, column |-> c]

\* Mutation of NumericValueEq: the f64 field is left out of the comparison.
NumericValueEqNoValue(a, b) ==
    /\ a.representation = b.representation
    /\ a.int_value = b.int_value

\* #[derive(PartialEq)] on NumericValue: field by field.
NumericValueEq(a, b) ==
    /\ a.representation = b.representation
    /\ F64Eq(a.value, b.value)
    /\ a.int_value = b.int_value

\* #[derive(PartialEq)] on SourceLocation.
SourceLocationEq(a, b) == a.line = b.line /\ a.column = b.column

(***************************************************************************)
(* ComponentValue: a record with the variant's tag and its payload.        *)
(***************************************************************************)
StringTags == {"Ident", "AtKeyword", "Hash", "IDHash", "QuotedString", "URL"}
UnitTags == {"WhiteSpace", "Colon", "Semicolon", "Comma", "IncludeMatch",
             "DashMatch", "PrefixMatch", "SuffixMatch", "SubstringMatch",
             "Column", "CDO", "CDC", "BadURL", "BadString",
             "CloseParenthesis", "CloseSquareBracket", "CloseCurlyBracket"}
BlockTags == {"Function", "ParenthesisBlock", "SquareBracketBlock", "CurlyBracketBlock"}

WhiteSpace == [tag |-> "WhiteSpace"]
Colon == [tag |-> "Colon"]
Ident(s) == [tag |-> "Ident", v |-> s]
Delim(c) == [tag |-> "Delim", c |-> c]
Number(n) == [tag |-> "Number", num |-> n]
Percentage(n) == [tag |-> "Percentage", num |-> n]
Dimension(n, u) == [tag |-> "Dimension", num |-> n, unit |-> u]
UnicodeRange(s, e) == [tag |-> "UnicodeRange", start |-> s, end |-> e]
Function(n, a) == [tag |-> "Function", name |-> n, args |-> a]
ParenthesisBlock(c) == [tag |-> "ParenthesisBlock", items |-> c]
SquareBracketBlock(c) == [tag |-> "SquareBracketBlock", items |-> c]
CurlyBracketBlock(c) == [tag |-> "CurlyBracketBlock", items |-> c]
Node(cv, loc) == <<cv, loc>>

RECURSIVE ComponentValueEq(_, _)
RECURSIVE VecEq(_, _)
RECURSIVE NodeVecEq(_, _)

\* PartialEq on Vec<ComponentValue>: same length, elementwise == in order.
VecEq(s, t) ==
    /\ Len(s) = Len(t)
    /\ \A i \in 1..Len(s) : ComponentValueEq(s[i], t[i])

\* PartialEq on Vec<Node>: each Node is the tuple (ComponentValue, SourceLocation).
NodeVecEq(s, t) ==
    /\ Len(s) = Len(t)
    /\ \A i \in 1..Len(s) :
          /\ ComponentValueEq(s[i][1], t[i][1])
          /\ SourceLocationEq(s[i][2], t[i][2])

\* #[derive(PartialEq)] on ComponentValue: same variant, and every payload
\* field == in order.
ComponentValueEq(a, b) ==
    /\ a.tag = b.tag
    /\ CASE a.tag \in StringTags -> a.v = b.v
         [] a.tag = "Delim" -> a.c = b.c
         [] a.tag \in {"Number", "Percentage"} -> NumericValueEq(a.num, b.num)
         [] a.tag = "Dimension" -> NumericValueEq(a.num, b.num) /\ a.unit = b.unit
         [] a.tag = "UnicodeRange" -> a.start = b.start /\ a.end = b.end
         [] a.tag = "Function" -> a.name = b.name /\ VecEq(a.args, b.args)
         [] a.tag \in {"ParenthesisBlock", "SquareBracketBlock"} -> VecEq(a.items, b.items)
         [] a.tag = "CurlyBracketBlock" -> NodeVecEq(a.items, b.items)
         [] OTHER -> TRUE

\* The derived ne: the negation of eq on every payload type used here.
ComponentValueNe(a, b) == ~ComponentValueEq(a, b)

(***************************************************************************)
(* The input sequences of the iterators: every sequence of at most MaxLen  *)
(* values of IterValues, and the sequence of the documentation's example.  *)
(***************************************************************************)
Loc11 == SourceLocation(1, 1)
Num42 == NumericValue("42", F64(42), Some(42))

IterValues ==
    { WhiteSpace,
      Ident("a"),
      Function("f", <<Ident("a"), WhiteSpace>>),
      ParenthesisBlock(<<WhiteSpace>>),
      SquareBracketBlock(<<WhiteSpace, Ident("a")>>),
      CurlyBracketBlock(<<Node(WhiteSpace, Loc11)>>) }

ExampleInput ==
    <<Ident("a"), WhiteSpace, WhiteSpace, Colon, WhiteSpace, Number(Num42)>>

SeqsUpTo(S, n) == UNION { [1..k -> S] : k \in 0..n }

Inputs == SeqsUpTo(IterValues, MaxLen) \cup {ExampleInput}

\* The number of calls logged in log that returned None.
NoneCount(log) == Cardinality({i \in 1..Len(log) : log[i].res = None})

(***************************************************************************)
(* SkipWhitespaceIterator (borrowing).                                     *)
(***************************************************************************)
RECURSIVE SkipNextLoop(_, _)
RECURSIVE SkipNextLoopStopAtWS(_, _)
RECURSIVE SkipNextLoopCollapse(_, _)
RECURSIVE SkipNextLoopRewind(_, _)
RECURSIVE StripWhiteSpace(_)

\* Mutation of SkipNextLoop: the loop breaks at the first WhiteSpace.
SkipNextLoopStopAtWS(s, p) ==
    IF p >= Len(s)
    THEN [res |-> None, pos |-> p]
    ELSE IF ComponentValueNe(s[p + 1], WhiteSpace)
         THEN [res |-> Some(s[p + 1]), pos |-> p + 1]
         ELSE [res |-> None, pos |-> p + 1]

\* Mutation of SkipNextLoop: a run of WhiteSpace is consumed and answered
\* with one WhiteSpace marker.
SkipNextLoopCollapse(s, p) ==
    IF p >= Len(s)
    THEN [res |-> None, pos |-> p]
    ELSE IF ComponentValueNe(s[p + 1], WhiteSpace)
         THEN [res |-> Some(s[p + 1]), pos |-> p + 1]
         ELSE IF p + 2 <= Len(s) /\ ~ComponentValueNe(s[p + 2], WhiteSpace)
              THEN SkipNextLoopCollapse(s, p + 1)
              ELSE [res |-> Some(WhiteSpace), pos |-> p + 1]

\* Mutation of SkipNextLoop: an exhausted iterator starts over.
SkipNextLoopRewind(s, p) ==
    IF p >= Len(s)
    THEN [res |-> None, pos |-> 0]
    ELSE IF ComponentValueNe(s[p + 1], WhiteSpace)
         THEN [res |-> Some(s[p + 1]), pos |-> p + 1]
         ELSE SkipNextLoopRewind(s, p + 1)

\* cv with the WhiteSpace of its nested contents removed.
StripWhiteSpace(cv) ==
    LET keep(x) == x.tag # "WhiteSpace"
        keepNode(n) == n[1].tag # "WhiteSpace"
    IN CASE cv.tag = "Function" -> [cv EXCEPT !.args = SelectSeq(cv.args, keep)]
         [] cv.tag \in {"ParenthesisBlock", "SquareBracketBlock"} ->
                [cv EXCEPT !.items = SelectSeq(cv.items, keep)]
         [] cv.tag = "CurlyBracketBlock" ->
                [cv EXCEPT !.items = SelectSeq(cv.items, keepNode)]
         [] OTHER -> cv

\* The loop of SkipWhitespaceIterator::next over slice::Iter at position p of
\* s: take elements until one is != WhiteSpace and return it; None when the
\* slice::Iter runs out.  The for loop calls next on the field
\* self.iter_with_whitespace in place, so what it takes stays taken.
SkipNextLoop(s, p) ==
    IF p >= Len(s)
    THEN [res |-> None, pos |-> p]
    ELSE IF ComponentValueNe(s[p + 1], WhiteSpace)
         THEN [res |-> Some(s[p + 1]), pos |-> p + 1]
         ELSE SkipNextLoop(s, p + 1)

\* <&[ComponentValue] as SkipWhitespaceIterable>::skip_whitespace
skip_whitespace ==
    /\ ~biter.made
    /\ biter' = [made |-> TRUE, pos |-> 0]
    /\ UNCHANGED <<orig, slice, blog, vec, miter, mlog>>
    /\ UNCHANGED <<eqVars, showVars>>

\* Mutation of SkipWhitespaceIterator_next: the elements taken are removed
\* from the underlying sequence.
SkipWhitespaceIterator_next_draining ==
    /\ biter.made
    /\ NoneCount(blog) < MaxExtra
    /\ LET r == SkipNextLoop(slice, biter.pos)
       IN /\ biter' = [biter EXCEPT !.pos = 0]
          /\ slice' = SubSeq(slice, r.pos + 1, Len(slice))
          /\ blog' = Append(blog, [pre |-> biter.pos, post |-> r.pos, res |-> r.res])
    /\ UNCHANGED <<orig, vec, miter, mlog>>
    /\ UNCHANGED <<eqVars, showVars>>

\* SkipWhitespaceIterator::next
SkipWhitespaceIterator_next ==
    /\ biter.made
    /\ NoneCount(blog) < MaxExtra
    /\ LET r == SkipNextLoop(slice, biter.pos)
       IN /\ biter' = [biter EXCEPT !.pos = r.pos]
          /\ blog' = Append(blog, [pre |-> biter.pos, post |-> r.pos, res |-> r.res])
    /\ UNCHANGED <<orig, slice, vec, miter, mlog>>
    /\ UNCHANGED <<eqVars, showVars>>

(***************************************************************************)
(* MoveSkipWhitespaceIterator (consuming).                                 *)
(***************************************************************************)
RECURSIVE MoveNextLoop(_, _)
RECURSIVE MoveNextLoopEager(_, _)
RECURSIVE MoveNextLoopDeep(_, _)
RECURSIVE DropWhiteSpace(_, _)

\* Mutation of MoveNextLoop: the test for WhiteSpace is missing.
MoveNextLoopNoFilter(rest, taken) ==
    IF rest = <<>>
    THEN [res |-> None, rest |-> rest, taken |-> taken]
    ELSE [res |-> Some(Head(rest)), rest |-> Tail(rest), taken |-> taken + 1]

\* rest without its leading WhiteSpace, and the count of elements taken.
DropWhiteSpace(rest, taken) ==
    IF rest # <<>> /\ ~ComponentValueNe(Head(rest), WhiteSpace)
    THEN DropWhiteSpace(Tail(rest), taken + 1)
    ELSE [rest |-> rest, taken |-> taken]

\* Mutation of MoveNextLoop: the WhiteSpace that follows the returned
\* element is consumed in the same call.
MoveNextLoopEager(rest, taken) ==
    IF rest = <<>>
    THEN [res |-> None, rest |-> rest, taken |-> taken]
    ELSE IF ComponentValueNe(Head(rest), WhiteSpace)
         THEN LET d == DropWhiteSpace(Tail(rest), taken + 1)
              IN [res |-> Some(Head(rest)), rest |-> d.rest, taken |-> d.taken]
         ELSE MoveNextLoopEager(Tail(rest), taken + 1)

\* Mutation of MoveNextLoop: WhiteSpace is filtered inside the returned
\* element too.
MoveNextLoopDeep(rest, taken) ==
    IF rest = <<>>
    THEN [res |-> None, rest |-> rest, taken |-> taken]
    ELSE IF ComponentValueNe(Head(rest), WhiteSpace)
         THEN [res |-> Some(StripWhiteSpace(Head(rest))), rest |-> Tail(rest),
               taken |-> taken + 1]
         ELSE MoveNextLoopDeep(Tail(rest), taken + 1)

\* The loop of MoveSkipWhitespaceIterator::next over vec::IntoIter holding
\* rest, with taken elements already moved out of it.
MoveNextLoop(rest, taken) ==
    IF rest = <<>>
    THEN [res |-> None, rest |-> rest, taken |-> taken]
    ELSE IF ComponentValueNe(Head(rest), WhiteSpace)
         THEN [res |-> Some(Head(rest)), rest |-> Tail(rest), taken |-> taken + 1]
         ELSE MoveNextLoop(Tail(rest), taken + 1)

\* <Vec<ComponentValue> as MoveSkipWhitespaceIterable>::move_skip_whitespace:
\* the Vec is moved into the iterator, and is not accessible afterwards.
move_skip_whitespace ==
    /\ ~miter.made
    /\ miter' = [made |-> TRUE, rest |-> vec, taken |-> 0]
    /\ vec' = <<>>
    /\ UNCHANGED <<orig, slice, biter, blog, mlog>>
    /\ UNCHANGED <<eqVars, showVars>>

\* MoveSkipWhitespaceIterator::next
MoveSkipWhitespaceIterator_next ==
    /\ miter.made
    /\ NoneCount(mlog) < MaxExtra
    /\ LET r == MoveNextLoop(miter.rest, miter.taken)
       IN /\ miter' = [miter EXCEPT !.rest = r.rest, !.taken = r.taken]
          /\ mlog' = Append(mlog, [pre |-> miter.taken, post |-> r.taken, res |-> r.res])
    /\ UNCHANGED <<orig, slice, biter, blog, vec>>
    /\ UNCHANGED <<eqVars, showVars>>

(***************************************************************************)
(* Derived equality on Component Values: three values are drawn and        *)
(* compared with ==.                                                       *)
(***************************************************************************)
Loc12 == SourceLocation(1, 2)
Num42f == NumericValue("42.0", F64(42), None)
NumNaN == NumericValue("NaN", NaN, None)
NumZero == NumericValue("0", F64(0), Some(0))
NumNegZero == NumericValue("0", NegF64(0), Some(0))

NumericValues == {Num42, Num42f, NumNaN, NumZero, NumNegZero}

EqScalars ==
    {WhiteSpace, Colon, Ident("a"), Ident("b"), Delim("!"), UnicodeRange(0, 1)}
    \cup {Number(n) : n \in NumericValues}
    \cup {Percentage(Num42), Percentage(NumNaN)}
    \cup {Dimension(Num42, "px"), Dimension(Num42, "em"), Dimension(NumNaN, "px")}

\* The nested sequences: at most MaxArgs elements, with and without a NaN.
InnerSeqs == SeqsUpTo({Ident("a"), Number(NumNaN)}, MaxArgs)

Located(s) == [i \in 1..Len(s) |-> Node(s[i], Loc11)]

EqNested ==
    {Function("f", s) : s \in InnerSeqs}
    \cup {ParenthesisBlock(s) : s \in InnerSeqs}
    \cup {SquareBracketBlock(s) : s \in InnerSeqs}
    \cup {CurlyBracketBlock(Located(s)) : s \in InnerSeqs}
    \cup { Function("g", <<Ident("a")>>),
           CurlyBracketBlock(<<Node(Ident("a"), Loc12)>>),
           Function("f", <<ParenthesisBlock(<<Ident("a")>>)>>),
           Function("f", <<ParenthesisBlock(<<Number(NumNaN)>>)>>) }

EqValues == EqScalars \cup EqNested

\* ea == ea, ea == eb, eb == ea, eb == ec, ec == eb and ea == ec, as
\* ComponentValue's derived PartialEq computes them.
ComponentValue_eq ==
    /\ eqres = <<>>
    /\ eqres' = << [aa |-> ComponentValueEq(ea, ea),
                    ab |-> ComponentValueEq(ea, eb),
                    ba |-> ComponentValueEq(eb, ea),
                    bc |-> ComponentValueEq(eb, ec),
                    cb |-> ComponentValueEq(ec, eb),
                    ac |-> ComponentValueEq(ea, ec)] >>
    /\ UNCHANGED <<ea, eb, ec>>
    /\ UNCHANGED <<iterVars, showVars>>

(***************************************************************************)
(* SyntaxError and its rendering.                                          *)
(***************************************************************************)
\* ErrorReason, by discriminant.
EmptyInput == 0
ExtraInput == 1
MissingQualifiedRuleBlock == 2
InvalidDeclarationSyntax == 3
InvalidBangImportantSyntax == 4

ErrorReasons ==
    {EmptyInput, ExtraInput, MissingQualifiedRuleBlock, InvalidDeclarationSyntax,
     InvalidBangImportantSyntax}

SyntaxError(loc, r) == [location |-> loc, reason |-> r]

\* #[derive(Show)] on ErrorReason writes the name of the variant.
ErrorReason_fmt(r) ==
    CASE r = EmptyInput -> "EmptyInput"
      [] r = ExtraInput -> "ExtraInput"
      [] r = MissingQualifiedRuleBlock -> "MissingQualifiedRuleBlock"
      [] r = InvalidDeclarationSyntax -> "InvalidDeclarationSyntax"
      [] r = InvalidBangImportantSyntax -> "InvalidBangImportantSyntax"

DigitChar(d) ==
    CASE d = 0 -> "0" [] d = 1 -> "1" [] d = 2 -> "2" [] d = 3 -> "3" [] d = 4 -> "4"
      [] d = 5 -> "5" [] d = 6 -> "6" [] d = 7 -> "7" [] d = 8 -> "8" [] d = 9 -> "9"

RECURSIVE uint_fmt(_)

\* "{}" of a uint: its decimal digits, most significant first.
uint_fmt(n) ==
    IF n < 10 THEN DigitChar(n) ELSE uint_fmt(n \div 10) \o DigitChar(n % 10)

\* Mutation of SyntaxError_fmt: line and column change places.
SyntaxError_fmt_swapped(e) ==
    uint_fmt(e.location.column) \o ":" \o uint_fmt(e.location.line) \o " "
        \o ErrorReason_fmt(e.reason)

\* write!(f, "{}:{} {}", self.location.line, self.location.column, self.reason)
SyntaxError_fmt(e) ==
    uint_fmt(e.location.line) \o ":" \o uint_fmt(e.location.column) \o " "
        \o ErrorReason_fmt(e.reason)

SyntaxErrors ==
    {SyntaxError(SourceLocation(l, c), r) : l \in 0..MaxLine, c \in 0..MaxLine,
                                            r \in ErrorReasons}

\* <SyntaxError as fmt::Show>::fmt
fmt ==
    /\ rendered = <<>>
    /\ rendered' = <<SyntaxError_fmt(err)>>
    /\ UNCHANGED err
    /\ UNCHANGED <<iterVars, eqVars>>

\* The values the variables of the other specifications rest at.
EqIdle == ea = WhiteSpace /\ eb = WhiteSpace /\ ec = WhiteSpace /\ eqres = <<>>
ShowIdle == err = SyntaxError(Loc11, EmptyInput) /\ rendered = <<>>
IterIdle ==
    /\ orig = <<>>
    /\ slice = <<>>
    /\ vec = <<>>
    /\ biter = [made |-> FALSE, pos |-> 0]
    /\ miter = [made |-> FALSE, rest |-> <<>>, taken |-> 0]
    /\ blog = <<>>
    /\ mlog = <<>>

Init ==
    /\ orig \in Inputs
    /\ slice = orig
    /\ vec = orig
    /\ biter = [made |-> FALSE, pos |-> 0]
    /\ miter = [made |-> FALSE, rest |-> <<>>, taken |-> 0]
    /\ blog = <<>>
    /\ mlog = <<>>
    /\ EqIdle
    /\ ShowIdle

Next ==
    \/ skip_whitespace
    \/ SkipWhitespaceIterator_next
    \/ move_skip_whitespace
    \/ MoveSkipWhitespaceIterator_next

Spec == Init /\ [][Next]_vars

InitEq ==
    /\ ea \in EqValues
    /\ eb \in EqValues
    /\ ec \in EqValues
    /\ eqres = <<>>
    /\ IterIdle
    /\ ShowIdle

NextEq == ComponentValue_eq

SpecEq == InitEq /\ [][NextEq]_vars

InitShow ==
    /\ err \in SyntaxErrors
    /\ rendered = <<>>
    /\ IterIdle
    /\ EqIdle

NextShow == fmt

SpecShow == InitShow /\ [][NextShow]_vars

(***************************************************************************)
(* Properties of the iterators, under Spec.                                *)
(***************************************************************************)
IsWS(x) == x.tag = "WhiteSpace"
IsNotWS(x) == x.tag # "WhiteSpace"

\* The non-WhiteSpace elements of s, in order.
NonWS(s) == SelectSeq(s, IsNotWS)

\* The number of WhiteSpace elements among the first n of s.
WSCount(s, n) == Cardinality({k \in 1..n : IsWS(s[k])})

\* The items the calls logged in log returned, in order.
Items(log) ==
    LET hit(c) == c.res # None
        somes == SelectSeq(log, hit)
    IN [i \in 1..Len(somes) |-> Unwrap(somes[i].res)]

\* The index of the first non-WhiteSpace element of s after the first p, and
\* Len(s) + 1 when there is none.
FirstNonWSAfter(s, p) ==
    LET C == {k \in (p + 1)..Len(s) : IsNotWS(s[k])}
    IN IF C = {} THEN Len(s) + 1 ELSE CHOOSE k \in C : \A j \in C : k <= j

Logs == {blog, mlog}

\* C1: draining the borrowing iterator yields exactly the M non-WhiteSpace
\* elements of the sequence in their original order: call i <= M returns the
\* i-th of them, and call M + 1 (and any later one) returns None, so the drain
\* ends after M + 1 calls; the documentation's example yields
\* [Ident a, Colon, Number 42].
C1_BorrowDrainYieldsNonWhitespace ==
    LET want == NonWS(orig)
        M == Len(want)
    IN /\ Len(want) + WSCount(orig, Len(orig)) = Len(orig)
       /\ \A i \in 1..Len(blog) :
             blog[i].res = IF i <= M THEN Some(want[i]) ELSE None
       /\ (orig = ExampleInput /\ NoneCount(blog) > 0)
             => Items(blog) = <<Ident("a"), Colon, Number(Num42)>>

C1_Witness ==
    /\ orig = ExampleInput
    /\ Len(blog) = 4
    /\ blog[4].res = None
    /\ Len(Items(blog)) = 3

\* C2: stepped side by side, the consuming and the borrowing iterator over
\* the same logical sequence return equal results at every step: the same
\* items in the same order, and None at the same step.
C2_MoveAndBorrowAgree ==
    \A i \in 1..Len(blog) : i <= Len(mlog) => blog[i].res = mlog[i].res

C2_Witness ==
    /\ Len(blog) >= 3
    /\ Len(mlog) = Len(blog)
    /\ IsSome(mlog[1].res)
    /\ mlog[Len(mlog)].res = None
    /\ WSCount(orig, Len(orig)) >= 1

\* C3: both iterators end exactly when the underlying sequence is exhausted:
\* a call returns None only with every element consumed, a call made with the
\* inner iterator exhausted returns None, and no call returns None while a
\* non-WhiteSpace element is still unconsumed.
C3_NoneExactlyWhenExhausted ==
    /\ \A log \in Logs : \A i \in 1..Len(log) :
          /\ log[i].res = None => log[i].post = Len(orig)
          /\ log[i].pre = Len(orig) => log[i].res = None
          /\ log[i].res = None =>
                \A k \in (log[i].pre + 1)..Len(orig) : IsWS(orig[k])
    /\ (blog # <<>> /\ blog[Len(blog)].res = None) => biter.pos = Len(slice)
    /\ (mlog # <<>> /\ mlog[Len(mlog)].res = None) => miter.rest = <<>>

C3_Witness ==
    /\ \E i \in 1..Len(blog) :
          blog[i].res = None /\ blog[i].pre < Len(orig) /\ blog[i].pre > 0
    /\ \E i \in 1..Len(mlog) :
          mlog[i].res = None /\ mlog[i].pre = Len(orig)

\* C4: no item either iterator returns is WhiteSpace, every returned item is
\* the element of the source sequence at the position the call stopped at,
\* and a run of adjacent WhiteSpace contributes no item: of the elements
\* consumed so far, each non-WhiteSpace one was returned once and each
\* WhiteSpace one gave nothing.
C4_NoWhitespaceNoMarker ==
    /\ \A log \in Logs : \A i \in 1..Len(log) :
          IsSome(log[i].res) =>
             /\ IsNotWS(Unwrap(log[i].res))
             /\ log[i].post \in 1..Len(orig)
             /\ Unwrap(log[i].res) = orig[log[i].post]
    /\ Len(Items(blog)) = biter.pos - WSCount(orig, biter.pos)
    /\ Len(Items(mlog)) = miter.taken - WSCount(orig, miter.taken)

C4_Witness ==
    \A log \in Logs :
       /\ \E i \in 1..Len(log) : IsSome(log[i].res) /\ log[i].post - log[i].pre >= 3
       /\ \E i \in 1..Len(log) : log[i].res = None /\ log[i].post - log[i].pre >= 1

\* C7: the borrowing iterator leaves the underlying sequence as it was
\* before construction, whatever calls of next were made: same length, same
\* elements in the same order, WhiteSpace included.
C7_BorrowLeavesSequenceUnchanged ==
    biter.made =>
       /\ Len(slice) = Len(orig)
       /\ \A k \in 1..Len(orig) : slice[k] = orig[k]

C7_Witness ==
    /\ Len(blog) >= 3
    /\ blog[Len(blog)].res = None
    /\ WSCount(slice, Len(slice)) >= 1
    /\ biter.pos = Len(slice)

\* C8: both iterators are forward-only and not restartable: the inner
\* position never decreases within a call or from one call to a later one,
\* the items returned come from strictly increasing positions (so each
\* element is returned at most once), and after a None every later call
\* returns None.
C8_ForwardOnlyNotRestartable ==
    \A log \in Logs : \A i \in 1..Len(log) :
       /\ log[i].pre <= log[i].post
       /\ \A j \in 1..Len(log) :
             i < j =>
                /\ log[i].post <= log[j].pre
                /\ (IsSome(log[i].res) /\ IsSome(log[j].res)) => log[i].post < log[j].post
                /\ log[i].res = None => log[j].res = None

C8_Witness ==
    \A log \in Logs :
       /\ Len(log) >= 4
       /\ IsSome(log[1].res)
       /\ IsSome(log[2].res)
       /\ log[Len(log) - 1].res = None
       /\ log[Len(log)].res = None

\* C9: each call does exact one-token lookahead: from inner position p it
\* stops right after the first non-WhiteSpace element at or after p and returns
\* that element (or stops at the end and returns None); the next call starts
\* where this one stopped, and the iterator holds that position between calls,
\* so WhiteSpace after the returned element is left unconsumed.
C9_StopsRightAfterReturnedItem ==
    /\ \A log \in Logs : \A i \in 1..Len(log) :
          LET f == FirstNonWSAfter(orig, log[i].pre)
          IN /\ log[i].pre = IF i = 1 THEN 0 ELSE log[i - 1].post
             /\ IF f <= Len(orig)
                THEN log[i].post = f /\ log[i].res = Some(orig[f])
                ELSE log[i].post = Len(orig) /\ log[i].res = None
    /\ biter.pos = IF blog = <<>> THEN 0 ELSE blog[Len(blog)].post
    /\ miter.made =>
          /\ miter.taken = IF mlog = <<>> THEN 0 ELSE mlog[Len(mlog)].post
          /\ miter.rest = SubSeq(orig, miter.taken + 1, Len(orig))

C9_Witness ==
    \A log \in Logs :
       /\ log # <<>>
       /\ IsSome(log[Len(log)].res)
       /\ log[Len(log)].post < Len(orig)
       /\ IsWS(orig[log[Len(log)].post + 1])
       /\ log[Len(log)].post - log[Len(log)].pre >= 2
    /\ biter.pos = blog[Len(blog)].post
    /\ Len(miter.rest) = Len(orig) - mlog[Len(mlog)].post

\* The nested contents of a Function or block value.
Contents(cv) == IF cv.tag = "Function" THEN cv.args ELSE cv.items

\* Whether the nested contents of cv hold a WhiteSpace token.
HasNestedWS(cv) ==
    \E k \in 1..Len(Contents(cv)) :
       IF cv.tag = "CurlyBracketBlock"
       THEN IsWS(Contents(cv)[k][1])
       ELSE IsWS(Contents(cv)[k])

\* C10: filtering applies to the top level only: a yielded Function or block
\* has the nested contents of the source element it came from, so nested
\* WhiteSpace is still present in the yielded item, for both iterators.
C10_NestedWhitespaceKept ==
    \A log \in Logs : \A i \in 1..Len(log) :
       (IsSome(log[i].res) /\ orig[log[i].post].tag \in BlockTags) =>
          /\ Unwrap(log[i].res).tag = orig[log[i].post].tag
          /\ Contents(Unwrap(log[i].res)) = Contents(orig[log[i].post])
          /\ HasNestedWS(orig[log[i].post]) => HasNestedWS(Unwrap(log[i].res))

C10_Witness ==
    \A log \in Logs :
       \A t \in BlockTags :
          \E i \in 1..Len(log) :
             /\ IsSome(log[i].res)
             /\ Unwrap(log[i].res).tag = t
             /\ HasNestedWS(Unwrap(log[i].res))

(***************************************************************************)
(* Properties of the rendering of SyntaxError, under SpecShow.             *)
(***************************************************************************)
\* The names of the reasons, in the order of their declaration.
CanonicalNames ==
    <<"EmptyInput", "ExtraInput", "MissingQualifiedRuleBlock",
      "InvalidDeclarationSyntax", "InvalidBangImportantSyntax">>

ExampleError == SyntaxError(SourceLocation(3, 5), ExtraInput)

\* C5: a SyntaxError renders as "{line}:{column} {reason}": the decimal
\* line, a colon, the decimal column, one space, the canonical name of the
\* reason; line 3, column 5, ExtraInput renders as "3:5 ExtraInput".
C5_RenderingIsLineColumnReason ==
    rendered # <<>> =>
       /\ rendered[1] = ToString(err.location.line) \o ":"
                           \o ToString(err.location.column) \o " "
                           \o CanonicalNames[err.reason + 1]
       /\ err = ExampleError => rendered[1] = "3:5 ExtraInput"

C5_Witness == err = ExampleError /\ rendered = <<"3:5 ExtraInput">>

(***************************************************************************)
(* Properties of == on Component Values, under SpecEq.                     *)
(***************************************************************************)
RECURSIVE HasNaN(_)

\* Whether cv holds a NaN in a NumericValue, at any depth.
HasNaN(cv) ==
    CASE cv.tag \in {"Number", "Percentage", "Dimension"} -> cv.num.value.nan
      [] cv.tag = "Function" -> \E k \in 1..Len(cv.args) : HasNaN(cv.args[k])
      [] cv.tag \in {"ParenthesisBlock", "SquareBracketBlock"} ->
             \E k \in 1..Len(cv.items) : HasNaN(cv.items[k])
      [] cv.tag = "CurlyBracketBlock" ->
             \E k \in 1..Len(cv.items) : HasNaN(cv.items[k][1])
      [] OTHER -> FALSE

\* C6 as stated: == on Component Values is reflexive, symmetric and
\* transitive for every variant, the numeric ones included, and two values of
\* identical nested structure are equal.
C6_EqIsEquivalence ==
    eqres # <<>> =>
       LET r == eqres[1]
       IN /\ r.aa
          /\ r.ab = r.ba
          /\ (r.ab /\ r.bc) => r.ac
          /\ ea = eb => r.ab

\* C6, amended: == on Component Values is symmetric and transitive for every
\* variant; it is reflexive, and equates values of identical nested structure,
\* exactly for the values that hold no NaN in a NumericValue at any depth; a
\* value holding a NaN is not equal to itself.
C6_EqIsPartialEquivalence ==
    eqres # <<>> =>
       LET r == eqres[1]
       IN /\ r.ab = r.ba
          /\ r.bc = r.cb
          /\ (r.ab /\ r.bc) => r.ac
          /\ r.aa = ~HasNaN(ea)
          /\ (ea = eb /\ ~HasNaN(ea)) => r.ab
          /\ r.ab => (ea.tag = eb.tag /\ ~HasNaN(ea) /\ ~HasNaN(eb))

C6_Witness ==
    /\ eqres # <<>>
    /\ ea.tag = "Function"
    /\ HasNaN(ea)
    /\ ~eqres[1].aa
    /\ eb.tag = "Number"
    /\ eb # ec
    /\ eqres[1].bc
    /\ eqres[1].cb

====
